---------------------------- MODULE Spec2Model ----------------------------
(***************************************************************************)
(* Model of the backtest simulation engine of bybit-trading-bot:           *)
(*   src/backtest.py                          class Backtester             *)
(*   src/strategies/trend_reversal/backtest.py class TrendReversalBacktester*)
(*   src/strategies/sma_crossover/bot.py      TradingBot.get_signal        *)
(*                                                                         *)
(* Prices, sizes and balances are Python floats in the source.  They are   *)
(* modelled as exact rationals <<numerator, denominator>> in lowest terms  *)
(* (denominator > 0), so the arithmetic is that of the reals; NaN is the   *)
(* pair <<0, 0>> and every ordered comparison with it is FALSE, as in      *)
(* IEEE-754 / pandas.  Row indices are 0-based as in the source; row k of  *)
(* the DataFrame is df[k + 1].                                             *)
(***************************************************************************)
EXTENDS Integers, Sequences, FiniteSets

(***************************************************************************)
(* Rational arithmetic                                                     *)
(***************************************************************************)
RECURSIVE GCD(_, _)
GCD(a, b) == IF b = 0 THEN a ELSE GCD(b, a % b)

Abs(n) == IF n < 0 THEN -n ELSE n

Min(a, b) == IF a <= b THEN a ELSE b

\* n/d in lowest terms with a positive denominator (d # 0)
R(n, d) ==
    LET g == GCD(Abs(n), Abs(d))
        s == IF d < 0 THEN -1 ELSE 1
    IN  <<(s * n) \div g, (s * d) \div g>>

I(n) == <<n, 1>>

NaN == <<0, 0>>

IsNaN(x) == x[2] = 0

Zero == I(0)

Hundred == I(100)

One == I(1)

RAdd(x, y) == R(x[1] * y[2] + y[1] * x[2], x[2] * y[2])

RSub(x, y) == R(x[1] * y[2] - y[1] * x[2], x[2] * y[2])

RMul(x, y) == R(x[1] * y[1], x[2] * y[2])

\* y # 0
RDiv(x, y) == R(x[1] * y[2], x[2] * y[1])

RLt(x, y) == ~IsNaN(x) /\ ~IsNaN(y) /\ x[1] * y[2] < y[1] * x[2]

RLe(x, y) == ~IsNaN(x) /\ ~IsNaN(y) /\ x[1] * y[2] <= y[1] * x[2]

RGt(x, y) == RLt(y, x)

RGe(x, y) == RLe(y, x)

(***************************************************************************)
(* Configuration (src/config.py, src/strategies/trend_reversal/config.py)  *)
(***************************************************************************)
\* TRADE_QUANTITY = 0.001 in both configuration files
TRADE_QUANTITY == R(1, 1000)

\* TAKE_PROFIT_PCT = 0.5
TAKE_PROFIT_PCT == R(1, 2)

\* STOP_LOSS_PCT = 1.0
STOP_LOSS_PCT == R(1, 1)

\* MIN_RED_CANDLE_PCT = 0.1
MIN_RED_CANDLE_PCT == R(1, 10)

\* MAX_RED_CANDLE_PCT = 2.0
MAX_RED_CANDLE_PCT == R(2, 1)

\* The window lengths and counters below are 20, 50, 50, 5, 4 and 10 in the
\* configuration files; the model runs them scaled down so that a series of
\* MaxBars bars crosses every window.
SHORT_SMA_PERIOD == 2

LONG_SMA_PERIOD == 3

TREND_SMA_PERIOD == 2

TREND_LOOKBACK == 1

MAX_HOLD_CANDLES == 1

MAX_DAILY_TRADES == 1

\* longest bar series handed to a crossover run
MaxBars == 6

\* longest bar series handed to a trend-reversal run
MaxTrendBars == 4

\* largest backtest_start_idx tried (rows before it are warm-up only)
MaxStart == 1

\* most direct simulate_buy / simulate_sell calls in the method-level
\* specification
MaxCalls == 4

\* the fetch window, scaled: warmup_periods, start_ts and end_ts, the newest
\* timestamp the provider serves, and the rows fetched over all pages
WarmupPeriods == 2
StartTs == 2
EndTs == 4
MaxTs == 5
MaxRows == 3

\* most SELL trades in a ledger handed to print_results
MaxSells == 3

None == "None"

\* self.current_day = None
NoDay == -1


(***************************************************************************)
(* Inputs: initial balances and bar series                                 *)
(***************************************************************************)
\* initial_balance values tried: nothing, less than one TRADE_QUANTITY at
\* the prices below (partial fill), and plenty
InitialBalances == {I(0), R(1, 10), I(10)}

Bar(o, h, l, c) == [open |-> o, high |-> h, low |-> l, close |-> c]

\* bars of the crossover runs: only the close is read
CrossBars == {Bar(c, c, c, c) : c \in {196, 200, 202}}

\* bars of the trend-reversal runs
TrendBars ==
    { Bar(196, 196, 196, 196),    \* flat, low
      Bar(200, 200, 200, 200),    \* flat
      Bar(202, 202, 200, 200),    \* red 0.99 %, closes at 200
      Bar(204, 204, 202, 202),    \* red 0.98 %, closes at 202
      Bar(202, 202, 196, 196),    \* red 2.97 %, range 196..202
      Bar(200, 200, 196, 200) }   \* flat body with a low wick to 196

\* every series of 1..maxlen bars over an alphabet, all on calendar day 0
SeriesOver(bars, maxlen) ==
    UNION { { [k \in 1..n |-> [open |-> s[k].open, high |-> s[k].high,
                               low |-> s[k].low, close |-> s[k].close,
                               day |-> 0]] : s \in [1..n -> bars] } :
            n \in 1..maxlen }

\* the series d with the rows after row `split` moved to calendar day 1
\* (timestamps are sorted, so the day never decreases along a series)
WithDays(d, split) ==
    [k \in 1..Len(d) |-> [d[k] EXCEPT !.day = IF k <= split THEN 0 ELSE 1]]

(***************************************************************************)
(* Indicator Engine                                                        *)
(***************************************************************************)
RECURSIVE SumClose(_, _, _)
\* sum of the closes of rows lo..hi (0-based, inclusive)
SumClose(d, lo, hi) ==
    IF hi < lo THEN 0 ELSE d[hi + 1].close + SumClose(d, lo, hi - 1)

\* mutant of RollingMean: the mean of the rows seen so far before the window
\* is full (min_periods = 1)
RollingMean_NoWarmup(d, w, k) ==
    IF k < w - 1 THEN R(SumClose(d, 0, k), k + 1)
    ELSE R(SumClose(d, k - w + 1, k), w)

\* df["close"].rolling(window=w).mean() at row k: NaN for the first w-1 rows
RollingMean(d, w, k) ==
    IF k < w - 1 THEN NaN ELSE R(SumClose(d, k - w + 1, k), w)

\* Backtester.calculate_sma / TradingBot.calculate_sma: the frame with the
\* two SMA columns added
calculate_sma(d) ==
    [k \in 1..Len(d) |->
        [open |-> d[k].open, high |-> d[k].high, low |-> d[k].low,
         close |-> d[k].close, day |-> d[k].day,
         sma_short |-> RollingMean(d, SHORT_SMA_PERIOD, k - 1),
         sma_long |-> RollingMean(d, LONG_SMA_PERIOD, k - 1)]]

\* mutant of SmaRising: an unchanged SMA counts as rising
SmaRising_OrEqual(d, k) ==
    k >= 1 /\ RGe(RollingMean(d, TREND_SMA_PERIOD, k),
                  RollingMean(d, TREND_SMA_PERIOD, k - 1))

\* df["sma"] > df["sma"].shift(1) at row k (False when either is NaN)
SmaRising(d, k) ==
    k >= 1 /\ RGt(RollingMean(d, TREND_SMA_PERIOD, k),
                  RollingMean(d, TREND_SMA_PERIOD, k - 1))

RECURSIVE SmaRisingCount(_, _)
\* the running count of the loop at lines 157-163, at row k
SmaRisingCount(d, k) ==
    IF k < 0 THEN 0
    ELSE IF SmaRising(d, k) THEN SmaRisingCount(d, k - 1) + 1 ELSE 0

\* ((open - close) / open * 100).clip(lower=0)
CandlePct(o, c) ==
    LET pct == RMul(RDiv(RSub(I(o), I(c)), I(o)), Hundred)
    IN  IF RLt(pct, Zero) THEN Zero ELSE pct

\* the columns calculate_indicators adds to one row, given the row's trend
\* SMA and rising count (lines 165-170)
IndicatorRow(b, sma, cnt) ==
    [open |-> b.open, high |-> b.high, low |-> b.low,
     close |-> b.close, day |-> b.day,
     sma |-> sma,
     sma_rising_count |-> cnt,
     is_red |-> b.close < b.open,
     candle_pct |-> CandlePct(b.open, b.close),
     in_uptrend |-> RGt(I(b.close), sma) /\ cnt >= TREND_LOOKBACK]

\* TrendReversalBacktester.calculate_indicators
calculate_indicators(d) ==
    [k \in 1..Len(d) |->
        IndicatorRow(d[k], RollingMean(d, TREND_SMA_PERIOD, k - 1),
                     SmaRisingCount(d, k - 1))]

\* mutant of is_valid_entry: the lower bound of the body range is exclusive
is_valid_entry_Exclusive(row) ==
    IF ~row.in_uptrend THEN FALSE
    ELSE IF ~row.is_red THEN FALSE
    ELSE IF RLe(row.candle_pct, MIN_RED_CANDLE_PCT) THEN FALSE
    ELSE IF RGt(row.candle_pct, MAX_RED_CANDLE_PCT) THEN FALSE
    ELSE TRUE

\* TrendReversalBacktester.is_valid_entry
is_valid_entry(row) ==
    IF ~row.in_uptrend THEN FALSE
    ELSE IF ~row.is_red THEN FALSE
    ELSE IF RLt(row.candle_pct, MIN_RED_CANDLE_PCT) THEN FALSE
    ELSE IF RGt(row.candle_pct, MAX_RED_CANDLE_PCT) THEN FALSE
    ELSE TRUE


(***************************************************************************)
(* State                                                                   *)
(***************************************************************************)
VARIABLES
    variant,            \* "crossover" (Backtester) or "trend" (TrendReversalBacktester)
    initial_balance,    \* self.initial_balance
    balance,            \* self.balance
    position,           \* self.position: None or "long"
    position_size,      \* self.position_size
    entry_price,        \* self.entry_price
    entry_candle_idx,   \* self.entry_candle_idx (trend)
    daily_trades,       \* self.daily_trades (trend)
    current_day,        \* self.current_day (trend)
    trades,             \* self.trades, the ledger
    last_signal,        \* run()'s local last_signal (crossover)
    df,                 \* run()'s local df, indicator columns included
    backtest_start_idx, \* run()'s local backtest_start_idx
    i,                  \* the loop index of run()
    pc,                 \* "init", "fetch", "fetched", "loop", "done", "error" (an
                        \* exception left run())
    sell_ret,           \* what simulate_sell returned in the latest step (None: not called)
    previous,           \* get_signal / run: the row before the current one
    current,            \* get_signal / run: the current row
    len_df,             \* get_signal: len(df), the number of rows fetched
    bt_signal,          \* the signal Backtester.run computes from the two rows
    bot_signal,         \* the signal TradingBot.get_signal returns for them
    valid_entry,        \* what is_valid_entry returned for the current row
    orders,             \* live bot: the sides of the orders placed, in order
    order_ret,          \* live bot: what place_order returned in the latest
                        \* poll (None: it was not called)
    all_data,           \* fetch_historical_data's local all_data, in fetch order
    current_ts,         \* fetch_historical_data's local current_ts
    fetch_error,        \* a page request returned retCode != 0 or raised
    report              \* what print_results printed

vars == <<variant, initial_balance, balance, position, position_size,
          entry_price, entry_candle_idx, daily_trades, current_day, trades,
          last_signal, df, backtest_start_idx, i, pc, sell_ret,
          previous, current, len_df, bt_signal, bot_signal, valid_entry,
          orders, order_ret,
          all_data, current_ts, fetch_error, report>>

fetchVars == <<all_data, current_ts, fetch_error>>

signalVars == <<previous, current, len_df, bt_signal, bot_signal, valid_entry,
                orders, order_ret>>

mgrVars == <<balance, position, position_size, entry_price,
             entry_candle_idx, trades>>

dayVars == <<daily_trades, current_day>>

runVars == <<last_signal, df, backtest_start_idx, i, pc>>

runVars_but_pc == <<last_signal, df, backtest_start_idx, i>>

\* the state the Position & Ledger Manager owns, as one record
Mgr ==
    [balance |-> balance, position |-> position,
     position_size |-> position_size, entry_price |-> entry_price,
     entry_candle_idx |-> entry_candle_idx, trades |-> trades]

SetMgr(m) ==
    /\ balance' = m.balance
    /\ position' = m.position
    /\ position_size' = m.position_size
    /\ entry_price' = m.entry_price
    /\ entry_candle_idx' = m.entry_candle_idx
    /\ trades' = m.trades

(***************************************************************************)
(* Position & Ledger Manager                                               *)
(***************************************************************************)
\* mutant of BuySize: the size is not cut down to what the balance buys
BuySize_Uncapped(bal, price) == TRADE_QUANTITY

\* the size and cost both simulate_buy methods compute (lines 137-143 /
\* 192-197)
BuySize(bal, price) ==
    IF RGt(RMul(TRADE_QUANTITY, price), bal)
    THEN RDiv(bal, price)
    ELSE TRADE_QUANTITY

\* mutant of BuyCost: the cost is not capped at the balance
BuyCost_Uncapped(bal, price) == RMul(TRADE_QUANTITY, price)

BuyCost(bal, price) ==
    IF RGt(RMul(TRADE_QUANTITY, price), bal)
    THEN bal
    ELSE RMul(TRADE_QUANTITY, price)

\* mutant of simulate_buy: the position is not marked long
simulate_buy_StaysFlat(m, price, timestamp) ==
    LET size == BuySize(m.balance, price)
        bal == RSub(m.balance, BuyCost(m.balance, price))
    IN  [m EXCEPT
            !.position_size = size,
            !.balance = bal,
            !.entry_price = price,
            !.trades = Append(@, [timestamp |-> timestamp, type |-> "BUY",
                                  price |-> price, quantity |-> size,
                                  balance_after |-> bal,
                                  portfolio_value |-> RAdd(bal, RMul(size, price))])]

\* Backtester.simulate_buy
simulate_buy(m, price, timestamp) ==
    LET size == BuySize(m.balance, price)
        bal == RSub(m.balance, BuyCost(m.balance, price))
    IN  [m EXCEPT
            !.position_size = size,
            !.balance = bal,
            !.position = "long",
            !.entry_price = price,
            !.trades = Append(@, [timestamp |-> timestamp, type |-> "BUY",
                                  price |-> price, quantity |-> size,
                                  balance_after |-> bal,
                                  portfolio_value |-> RAdd(bal, RMul(size, price))])]

\* mutant of tr_simulate_buy: the position is not marked long
tr_simulate_buy_StaysFlat(m, price, timestamp, candle_idx) ==
    LET size == BuySize(m.balance, price)
        bal == RSub(m.balance, BuyCost(m.balance, price))
    IN  [m EXCEPT
            !.position_size = size,
            !.balance = bal,
            !.entry_price = price,
            !.entry_candle_idx = candle_idx,
            !.trades = Append(@, [timestamp |-> timestamp, type |-> "BUY",
                                  price |-> price, quantity |-> size,
                                  balance_after |-> bal])]

\* TrendReversalBacktester.simulate_buy
tr_simulate_buy(m, price, timestamp, candle_idx) ==
    LET size == BuySize(m.balance, price)
        bal == RSub(m.balance, BuyCost(m.balance, price))
    IN  [m EXCEPT
            !.position_size = size,
            !.balance = bal,
            !.position = "long",
            !.entry_price = price,
            !.entry_candle_idx = candle_idx,
            !.trades = Append(@, [timestamp |-> timestamp, type |-> "BUY",
                                  price |-> price, quantity |-> size,
                                  balance_after |-> bal])]

\* the guard both simulate_sell methods start with: TRUE when the call
\* returns False without selling
SellRejected(m) == m.position # "long" \/ m.position_size = Zero

\* profit and profit_pct of a sale, as both simulate_sell methods compute them
\* mutant of SellProfit: the cost basis is taken at the exit price's size of
\* one unit, not at position_size
SellProfit_UnitBasis(m, price) ==
    RSub(RMul(m.position_size, price), m.entry_price)

SellProfit(m, price) ==
    RSub(RMul(m.position_size, price), RMul(m.position_size, m.entry_price))

SellProfitPct(m, price) ==
    RMul(RDiv(RSub(price, m.entry_price), m.entry_price), Hundred)

\* mutant of simulate_sell: the SELL record is put at the front of the ledger
simulate_sell_Prepend(m, price, timestamp) ==
    IF SellRejected(m) THEN [ret |-> FALSE, m |-> m]
    ELSE
        LET bal == RAdd(m.balance, RMul(m.position_size, price))
        IN  [ret |-> TRUE,
             m |-> [m EXCEPT
                    !.balance = bal,
                    !.trades = <<[timestamp |-> timestamp, type |-> "SELL",
                                  price |-> price,
                                  quantity |-> m.position_size,
                                  profit |-> SellProfit(m, price),
                                  profit_pct |-> SellProfitPct(m, price),
                                  balance_after |-> bal,
                                  portfolio_value |-> bal]>> \o @,
                    !.position = None,
                    !.position_size = Zero,
                    !.entry_price = Zero]]

\* Backtester.simulate_sell: [ret |-> the return value, m |-> the state after]
simulate_sell(m, price, timestamp) ==
    IF SellRejected(m) THEN [ret |-> FALSE, m |-> m]
    ELSE
        LET bal == RAdd(m.balance, RMul(m.position_size, price))
        IN  [ret |-> TRUE,
             m |-> [m EXCEPT
                    !.balance = bal,
                    !.trades = Append(@, [timestamp |-> timestamp, type |-> "SELL",
                                          price |-> price,
                                          quantity |-> m.position_size,
                                          profit |-> SellProfit(m, price),
                                          profit_pct |-> SellProfitPct(m, price),
                                          balance_after |-> bal,
                                          portfolio_value |-> bal]),
                    !.position = None,
                    !.position_size = Zero,
                    !.entry_price = Zero]]

\* TrendReversalBacktester.simulate_sell
tr_simulate_sell(m, price, timestamp, exit_reason) ==
    IF SellRejected(m) THEN [ret |-> FALSE, m |-> m]
    ELSE
        LET bal == RAdd(m.balance, RMul(m.position_size, price))
        IN  [ret |-> TRUE,
             m |-> [m EXCEPT
                    !.balance = bal,
                    !.trades = Append(@, [timestamp |-> timestamp, type |-> "SELL",
                                          price |-> price,
                                          quantity |-> m.position_size,
                                          profit |-> SellProfit(m, price),
                                          profit_pct |-> SellProfitPct(m, price),
                                          exit_reason |-> exit_reason,
                                          balance_after |-> bal]),
                    !.position = None,
                    !.position_size = Zero,
                    !.entry_price = Zero,
                    !.entry_candle_idx = 0]]

\* take_profit_price and stop_loss_price of check_exit_conditions
TakeProfitPrice(entry) == RMul(entry, RAdd(One, RDiv(TAKE_PROFIT_PCT, Hundred)))

\* mutant of StopLossPrice: the stop is placed above the entry price
StopLossPrice_Above(entry) == RMul(entry, RAdd(One, RDiv(STOP_LOSS_PCT, Hundred)))

StopLossPrice(entry) == RMul(entry, RSub(One, RDiv(STOP_LOSS_PCT, Hundred)))

\* TrendReversalBacktester.check_exit_conditions: the pair (exit_price,
\* exit_reason); (None, None) is exit_reason = None with exit_price NaN
check_exit_conditions(m, row, candle_idx) ==
    IF m.position # "long" THEN [exit_price |-> NaN, exit_reason |-> None]
    ELSE IF RLe(I(row.low), StopLossPrice(m.entry_price))
    THEN [exit_price |-> StopLossPrice(m.entry_price), exit_reason |-> "STOP_LOSS"]
    ELSE IF RGe(I(row.high), TakeProfitPrice(m.entry_price))
    THEN [exit_price |-> TakeProfitPrice(m.entry_price), exit_reason |-> "TAKE_PROFIT"]
    ELSE IF candle_idx - m.entry_candle_idx >= MAX_HOLD_CANDLES
    THEN [exit_price |-> I(row.close), exit_reason |-> "TIME_EXIT"]
    ELSE [exit_price |-> NaN, exit_reason |-> None]


(***************************************************************************)
(* Signal Generator, crossover variant                                     *)
(***************************************************************************)
\* mutant of BuyCond: the current leg compares with >= instead of >
BuyCond_Ge(prev, cur) ==
    RLe(prev.sma_short, prev.sma_long) /\ RGe(cur.sma_short, cur.sma_long)

\* the condition of the "buy" if (backtest.py 224-225, bot.py 99-100)
BuyCond(prev, cur) ==
    RLe(prev.sma_short, prev.sma_long) /\ RGt(cur.sma_short, cur.sma_long)

\* the condition of the "sell" if (backtest.py 229-230, bot.py 104-105)
SellCond(prev, cur) ==
    RGe(prev.sma_short, prev.sma_long) /\ RLt(cur.sma_short, cur.sma_long)

\* Backtester.run, lines 220-231: both ifs run, the later assignment wins
run_signal(prev, cur) ==
    IF SellCond(prev, cur) THEN "sell"
    ELSE IF BuyCond(prev, cur) THEN "buy"
    ELSE None

\* Backtester.run, lines 213-231: the signal of one bar, None when the bar
\* is skipped because an SMA of the current row is NaN
bar_signal(prev, cur) ==
    IF IsNaN(cur.sma_short) \/ IsNaN(cur.sma_long) THEN None
    ELSE run_signal(prev, cur)

\* TradingBot.get_signal on a frame of n rows whose last two rows are prev
\* and cur: the first if that holds returns
get_signal(n, prev, cur) ==
    IF n < LONG_SMA_PERIOD + 1 THEN None
    ELSE IF BuyCond(prev, cur) THEN "buy"
    ELSE IF SellCond(prev, cur) THEN "sell"
    ELSE None

(***************************************************************************)
(* Statistics: print_results of both classes, as the values it prints      *)
(***************************************************************************)
RAbs(x) == <<Abs(x[1]), x[2]>>

\* [t for t in self.trades if t["type"] == "SELL"]
SellTrades(t) == SelectSeq(t, LAMBDA x : x.type = "SELL")

\* mutant of IsWinner: a profit of exactly 0 counts as a win
IsWinner_OrZero(x) == RGe(x.profit, Zero)

\* the filter of winning_trades
IsWinner(x) == RGt(x.profit, Zero)

\* the filter of losing_trades
IsLoser(x) == RLe(x.profit, Zero)

RECURSIVE SumProfit(_)
\* sum(t["profit"] for t in s)
SumProfit(s) ==
    IF s = <<>> THEN Zero ELSE RAdd(Head(s).profit, SumProfit(Tail(s)))

\* x >= 0 printed with a fixed number of decimals (scale 10 for .1f, 100 for
\* .2f): the nearest multiple of 1/scale, a tie going to the even one
FormatFixed(x, scale) ==
    LET num == x[1] * scale
        q == num \div x[2]
        r == num % x[2]
    IN  IF 2 * r < x[2] THEN R(q, scale)
        ELSE IF 2 * r > x[2] THEN R(q + 1, scale)
        ELSE IF q % 2 = 0 THEN R(q, scale)
        ELSE R(q + 1, scale)

\* the "Profit Factor:" line: not printed, printed as inf, or printed as a
\* number with two decimals
NotPrinted == [printed |-> FALSE, inf |-> FALSE, value |-> Zero]

PrintedInf == [printed |-> TRUE, inf |-> TRUE, value |-> Zero]

PrintedValue(x) == [printed |-> TRUE, inf |-> FALSE, value |-> FormatFixed(x, 100)]

\* sum(...) / len(...) if trades else 0
AvgProfit(s) == IF s # <<>> THEN RDiv(SumProfit(s), I(Len(s))) ELSE Zero

\* Backtester.print_results, lines 299-301
ProfitFactor(wins, losses) ==
    IF losses # <<>> /\ AvgProfit(losses) # Zero
    THEN PrintedValue(RAbs(RDiv(SumProfit(wins), SumProfit(losses))))
    ELSE NotPrinted

\* TrendReversalBacktester.print_results, lines 375-379
tr_ProfitFactor(wins, losses) ==
    IF losses # <<>>
    THEN LET total_wins == SumProfit(wins)
             total_losses == RAbs(SumProfit(losses))
         IN  IF RGt(total_losses, Zero)
             THEN PrintedValue(RDiv(total_wins, total_losses))
             ELSE PrintedInf
    ELSE NotPrinted

\* mutant of NoTrades: a ledger whose SELL profits sum to 0 counts as empty
NoTrades_ZeroProfit(sell_trades) == SumProfit(sell_trades) = Zero

\* if total_trades == 0 (lines 268 / 335)
NoTrades(sell_trades) == Len(sell_trades) = 0

\* nothing has been printed yet
NothingPrinted == [status |-> "none"]

\* "No trades executed during backtest period."
NoTradesReport == [status |-> "no_trades"]

\* total_return: (final_value - initial_balance) / initial_balance * 100
TotalReturn(final_value, init) ==
    RMul(RDiv(RSub(final_value, init), init), Hundred)

\* print_results of class v on the ledger t of an object with the given
\* balance and initial balance: the trade counts, the win rate, the averages
\* and the profit factor line as printed, and the values of total_profit,
\* final_value and total_return before they are formatted
print_results(v, t, bal, init) ==
    LET sell_trades == SellTrades(t)
        total_trades == Len(sell_trades)
        winning_trades == SelectSeq(sell_trades, IsWinner)
        losing_trades == SelectSeq(sell_trades, IsLoser)
    IN  IF NoTrades(sell_trades) THEN NoTradesReport
        ELSE [status |-> "report",
              total_trades |-> total_trades,
              winning_trades |-> Len(winning_trades),
              losing_trades |-> Len(losing_trades),
              total_profit |-> SumProfit(sell_trades),
              final_value |-> bal,
              total_return |-> TotalReturn(bal, init),
              win_rate |-> FormatFixed(RMul(RDiv(I(Len(winning_trades)),
                                                 I(total_trades)), Hundred), 10),
              avg_win |-> AvgProfit(winning_trades),
              avg_loss |-> AvgProfit(losing_trades),
              profit_factor |-> IF v = "crossover"
                                THEN ProfitFactor(winning_trades, losing_trades)
                                ELSE tr_ProfitFactor(winning_trades, losing_trades)]

(***************************************************************************)
(* The runs                                                                *)
(***************************************************************************)
Last(s) == s[Len(s)]

\* trade['profit'] of trade = self.trades[-1] raises (KeyError on a BUY
\* record, IndexError on an empty ledger) unless the last trade is a SELL
LastTradeHasProfit(t) == Len(t) > 0 /\ Last(t).type = "SELL"

RetStr(b) == IF b THEN "True" ELSE "False"

\* the fields __init__ sets, in either class
Constructed ==
    /\ balance = initial_balance
    /\ position = None
    /\ position_size = Zero
    /\ entry_price = Zero
    /\ entry_candle_idx = 0
    /\ daily_trades = 0
    /\ current_day = NoDay
    /\ trades = <<>>

\* run() has not started
NotRunning ==
    /\ last_signal = None
    /\ df = <<>>
    /\ backtest_start_idx = 0
    /\ i = 0
    /\ pc = "init"
    /\ sell_ret = None
    /\ all_data = <<>>
    /\ current_ts = 0
    /\ fetch_error = FALSE
    /\ report = NothingPrinted

\* no signal evaluation is under way
NoSignalInput ==
    /\ previous = None
    /\ current = None
    /\ len_df = 0
    /\ bt_signal = None
    /\ bot_signal = None
    /\ valid_entry = None
    /\ orders = <<>>
    /\ order_ret = None

\* a freshly constructed Backtester or TrendReversalBacktester
Init ==
    /\ variant \in {"crossover", "trend"}
    /\ initial_balance \in InitialBalances
    /\ Constructed
    /\ NotRunning
    /\ NoSignalInput

\* run() up to the loop: the series is fetched, the indicator columns are
\* added and the first row at or after the start date is found
\* (a fetch that succeeded; SpecFetch below follows fetch_historical_data
\* request by request)
Fetch ==
    /\ pc = "init"
    /\ \E d \in (IF variant = "crossover" THEN SeriesOver(CrossBars, MaxBars)
                                           ELSE SeriesOver(TrendBars, MaxTrendBars)) :
         \E split \in (IF variant = "crossover" THEN {Len(d)} ELSE 1..Len(d)) :
           \E start \in 0..Min(Len(d) - 1, MaxStart) :
             /\ df' = IF variant = "crossover"
                      THEN calculate_sma(d)
                      ELSE calculate_indicators(WithDays(d, split))
             /\ backtest_start_idx' = start
             /\ i' = start
    /\ last_signal' = None
    /\ pc' = "loop"
    /\ sell_ret' = None
    /\ UNCHANGED <<variant, initial_balance, mgrVars, dayVars, signalVars, fetchVars, report>>

\* one iteration of the loop of Backtester.run (lines 209-244)
CrossBar ==
    /\ pc = "loop"
    /\ variant = "crossover"
    /\ i < Len(df)
    /\ LET cur == df[i + 1]
           prev == df[IF i = 0 THEN Len(df) ELSE i]     \* df.iloc[i - 1]
           price == I(cur.close)
           signal == bar_signal(prev, cur)
           sold == simulate_sell(Mgr, price, i)
       IN  IF signal # None /\ signal # last_signal /\ signal = "buy" /\ position # "long"
           THEN /\ SetMgr(simulate_buy(Mgr, price, i))
                /\ last_signal' = signal
                /\ i' = i + 1
                /\ sell_ret' = None
                /\ UNCHANGED pc
           ELSE IF signal # None /\ signal # last_signal /\ signal = "sell" /\ position = "long"
           THEN /\ SetMgr(sold.m)
                /\ sell_ret' = RetStr(sold.ret)
                /\ IF LastTradeHasProfit(sold.m.trades)
                   THEN last_signal' = signal /\ i' = i + 1 /\ pc' = pc
                   ELSE pc' = "error" /\ UNCHANGED <<last_signal, i>>
           ELSE /\ i' = i + 1
                /\ sell_ret' = None
                /\ UNCHANGED <<mgrVars, last_signal, pc>>
    /\ UNCHANGED <<variant, initial_balance, dayVars, df, backtest_start_idx,
                   signalVars, fetchVars, report>>

\* lines 292-295: the daily counter after the reset check of a bar on
\* calendar day `day`
DayCounter(day, cur_day, cnt) == IF day # cur_day THEN 0 ELSE cnt

\* mutant of CapAllows: off by one
CapAllows_OffByOne(cnt) == cnt <= MAX_DAILY_TRADES

\* line 307: the daily cap lets a new entry through
CapAllows(cnt) == cnt < MAX_DAILY_TRADES

\* mutant of TrendBar: the entry check runs before the exit check
TrendBar_EntryFirst ==
    /\ pc = "loop"
    /\ variant = "trend"
    /\ i < Len(df)
    /\ LET row == df[i + 1]
           dt == DayCounter(row.day, current_day, daily_trades)
           entering == position = None /\ CapAllows(dt) /\ is_valid_entry(row)
           m1 == IF entering THEN tr_simulate_buy(Mgr, I(row.close), i, i) ELSE Mgr
           ex == check_exit_conditions(m1, row, i)
           exiting == m1.position = "long" /\ ex.exit_reason # None
           sold == tr_simulate_sell(m1, ex.exit_price, i, ex.exit_reason)
           m2 == IF exiting THEN sold.m ELSE m1
           raised == exiting /\ ~LastTradeHasProfit(m2.trades)
       IN  /\ current_day' = row.day
           /\ sell_ret' = IF exiting THEN RetStr(sold.ret) ELSE None
           /\ SetMgr(m2)
           /\ daily_trades' = IF entering THEN dt + 1 ELSE dt
           /\ pc' = IF raised THEN "error" ELSE pc
           /\ i' = IF raised THEN i ELSE i + 1
    /\ UNCHANGED <<variant, initial_balance, last_signal, df, backtest_start_idx,
                   signalVars, fetchVars, report>>

\* one iteration of the loop of TrendReversalBacktester.run (lines 287-312)
TrendBar ==
    /\ pc = "loop"
    /\ variant = "trend"
    /\ i < Len(df)
    /\ LET row == df[i + 1]
           dt == DayCounter(row.day, current_day, daily_trades)
           ex == check_exit_conditions(Mgr, row, i)
           exiting == position = "long" /\ ex.exit_reason # None
           sold == tr_simulate_sell(Mgr, ex.exit_price, i, ex.exit_reason)
           m1 == IF exiting THEN sold.m ELSE Mgr
           raised == exiting /\ ~LastTradeHasProfit(m1.trades)
           entering == m1.position = None /\ CapAllows(dt) /\ is_valid_entry(row)
           m2 == IF entering THEN tr_simulate_buy(m1, I(row.close), i, i) ELSE m1
       IN  /\ current_day' = row.day
           /\ sell_ret' = IF exiting THEN RetStr(sold.ret) ELSE None
           /\ IF raised
              THEN /\ SetMgr(m1)
                   /\ daily_trades' = dt
                   /\ pc' = "error"
                   /\ i' = i
              ELSE /\ SetMgr(m2)
                   /\ daily_trades' = IF entering THEN dt + 1 ELSE dt
                   /\ pc' = pc
                   /\ i' = i + 1
    /\ UNCHANGED <<variant, initial_balance, last_signal, df, backtest_start_idx,
                   signalVars, fetchVars, report>>

\* the end of run() in both classes: the open position is closed at the
\* final row's close, then print_results runs
Finish ==
    /\ pc = "loop"
    /\ i = Len(df)
    /\ LET final == df[Len(df)]                        \* df.iloc[-1]
           sold == IF variant = "crossover"
                   THEN simulate_sell(Mgr, I(final.close), Len(df) - 1)
                   ELSE tr_simulate_sell(Mgr, I(final.close), Len(df) - 1, "END_OF_TEST")
           closing == position = "long"
           m1 == IF closing THEN sold.m ELSE Mgr
       IN  /\ SetMgr(m1)
           /\ sell_ret' = IF closing THEN RetStr(sold.ret) ELSE None
           /\ pc' = IF closing /\ ~LastTradeHasProfit(m1.trades) THEN "error" ELSE "done"
           /\ report' = IF closing /\ ~LastTradeHasProfit(m1.trades) THEN report
                         ELSE print_results(variant, m1.trades, m1.balance,
                                            initial_balance)
    /\ UNCHANGED <<variant, initial_balance, dayVars, runVars_but_pc, signalVars, fetchVars>>

Next == Fetch \/ CrossBar \/ TrendBar \/ Finish

Spec == Init /\ [][Next]_vars


(***************************************************************************)
(* Method-level specification: simulate_buy and simulate_sell called       *)
(* directly on a constructed object, in any order                          *)
(***************************************************************************)
CallPrices == {I(196), I(200), I(202)}

\* obj.simulate_buy(p, ...) called from outside run()
DirectBuy(p) ==
    /\ pc = "init"
    /\ Len(trades) < MaxCalls
    /\ SetMgr(IF variant = "crossover"
              THEN simulate_buy(Mgr, p, Len(trades))
              ELSE tr_simulate_buy(Mgr, p, Len(trades), Len(trades)))
    /\ sell_ret' = None
    /\ UNCHANGED <<variant, initial_balance, dayVars, runVars, signalVars, fetchVars, report>>

\* obj.simulate_sell(p, ...) called from outside run()
DirectSell(p) ==
    /\ pc = "init"
    /\ Len(trades) < MaxCalls
    /\ LET sold == IF variant = "crossover"
                   THEN simulate_sell(Mgr, p, Len(trades))
                   ELSE tr_simulate_sell(Mgr, p, Len(trades), "TIME_EXIT")
       IN  SetMgr(sold.m) /\ sell_ret' = RetStr(sold.ret)
    /\ UNCHANGED <<variant, initial_balance, dayVars, runVars, signalVars, fetchVars, report>>

CallBuy == \E p \in CallPrices : DirectBuy(p)

CallSell == \E p \in CallPrices : DirectSell(p)

NextAPI == CallBuy \/ CallSell

SpecAPI == Init /\ [][NextAPI]_vars

(***************************************************************************)
(* Signal specification: the crossover signal of one pair of rows, as the  *)
(* backtester and as the live bot compute it                               *)
(***************************************************************************)
\* SMA values tried for either average
SmaValues == {I(1), I(2), I(3)}

\* the value of a rolling mean of window w at row idx: NaN before the
\* window is full
Rolled(idx, w, v) == IF idx < w - 1 THEN NaN ELSE v

\* row idx of a frame, with the given SMA values where they are defined
SmaRow(idx, s, l) ==
    [sma_short |-> Rolled(idx, SHORT_SMA_PERIOD, s),
     sma_long |-> Rolled(idx, LONG_SMA_PERIOD, l)]

\* a frame of n rows whose last row is `current`; `previous` is
\* df.iloc[-2], which for the backtester at i = 0 is df.iloc[-1]
InitSignal ==
    /\ variant = "crossover"
    /\ initial_balance = I(10)
    /\ Constructed
    /\ NotRunning
    /\ len_df \in 1..(LONG_SMA_PERIOD + 2)
    /\ \E ps \in SmaValues, pl \in SmaValues, cs \in SmaValues, cl \in SmaValues :
         /\ current = SmaRow(len_df - 1, cs, cl)
         /\ previous = IF len_df = 1 THEN current ELSE SmaRow(len_df - 2, ps, pl)
    /\ bt_signal = "unset"
    /\ bot_signal = "unset"
    /\ valid_entry = None
    /\ orders = <<>>
    /\ order_ret = None

EvalSignal ==
    /\ bt_signal = "unset"
    /\ bt_signal' = bar_signal(previous, current)
    /\ bot_signal' = get_signal(len_df, previous, current)
    /\ UNCHANGED <<variant, initial_balance, mgrVars, dayVars, runVars, sell_ret,
                   previous, current, len_df, valid_entry, orders, order_ret,
                   fetchVars, report>>

NextSignal == EvalSignal

SpecSignal == InitSignal /\ [][NextSignal]_vars


(***************************************************************************)
(* Entry specification: is_valid_entry on one row of the frame             *)
(* calculate_indicators returns                                            *)
(***************************************************************************)
\* candle bodies tried: exactly MAX_RED_CANDLE_PCT (2 %), exactly
\* MIN_RED_CANDLE_PCT (0.1 %), above the range (3 %), below it (0.01 %), no
\* body, and a green candle
EntryBars ==
    { Bar(100, 100, 98, 98), Bar(1000, 1000, 999, 999), Bar(100, 100, 97, 97),
      Bar(10000, 10000, 9999, 9999), Bar(100, 100, 100, 100),
      Bar(100, 101, 100, 101) }

\* trend SMA values tried for a bar: undefined, below, at and above its close
EntrySmas(b) == {NaN, I(b.close - 1), I(b.close), I(b.close + 1)}

InitEntry ==
    /\ variant = "trend"
    /\ initial_balance = I(10)
    /\ Constructed
    /\ NotRunning
    /\ previous = None
    /\ len_df = 0
    /\ bt_signal = None
    /\ bot_signal = None
    /\ \E b \in EntryBars :
         \E sma \in EntrySmas(b), cnt \in 0..(TREND_LOOKBACK + 1) :
           current = IndicatorRow([open |-> b.open, high |-> b.high, low |-> b.low,
                                  close |-> b.close, day |-> 0], sma, cnt)
    /\ valid_entry = "unset"
    /\ orders = <<>>
    /\ order_ret = None

\* self.is_valid_entry(row)
EvalEntry ==
    /\ valid_entry = "unset"
    /\ valid_entry' = RetStr(is_valid_entry(current))
    /\ UNCHANGED <<variant, initial_balance, mgrVars, dayVars, runVars, sell_ret,
                   previous, current, len_df, bt_signal, bot_signal,
                   orders, order_ret, fetchVars, report>>

NextEntry == EvalEntry

SpecEntry == InitEntry /\ [][NextEntry]_vars

(***************************************************************************)
(* Fetch specification: fetch_historical_data, one page request at a time, *)
(* and run() up to the start of the simulation loop.  The method is the    *)
(* same in both classes.  Timestamps are in units of interval_ms.          *)
(***************************************************************************)
\* closes the provider's rows carry; they tell rows of one timestamp apart
FetchCloses == {196, 200}

\* one row of response["result"]["list"]
FetchRow(ts, c) == [timestamp |-> ts, close |-> c]

ProviderRows == {FetchRow(ts, c) : ts \in 0..MaxTs, c \in FetchCloses}

\* the non-empty pages of at most n rows, in any order and with repeats
Pages(n) == UNION {[1..k -> ProviderRows] : k \in 1..n}

\* max(timestamps) of a page
MaxTimestamp(page) ==
    CHOOSE t \in {page[k].timestamp : k \in 1..Len(page)} :
        \A k \in 1..Len(page) : page[k].timestamp <= t

Front(s) == SubSeq(s, 1, Len(s) - 1)

RECURSIVE drop_duplicates_KeepLast(_)
\* mutant of drop_duplicates: keep="last"
drop_duplicates_KeepLast(rows) ==
    IF rows = <<>> THEN <<>>
    ELSE LET rest == drop_duplicates_KeepLast(Tail(rows))
         IN  IF \E k \in 2..Len(rows) : rows[k].timestamp = Head(rows).timestamp
             THEN rest
             ELSE <<Head(rows)>> \o rest

RECURSIVE drop_duplicates(_)
\* df.drop_duplicates(subset=["timestamp"]): of the rows of one timestamp
\* the first is kept, the order of the kept rows is unchanged
drop_duplicates(rows) ==
    IF rows = <<>> THEN <<>>
    ELSE LET init == drop_duplicates(Front(rows))
         IN  IF \E k \in 1..(Len(rows) - 1) : rows[k].timestamp = Last(rows).timestamp
             THEN init
             ELSE Append(init, Last(rows))

\* the sorted frame with row r put after the rows whose timestamp is not
\* greater
InsertRow(sorted, r) ==
    LET k == Cardinality({j \in 1..Len(sorted) : sorted[j].timestamp <= r.timestamp})
    IN  SubSeq(sorted, 1, k) \o <<r>> \o SubSeq(sorted, k + 1, Len(sorted))

RECURSIVE sort_values(_)
\* df.sort_values("timestamp").reset_index(drop=True)
sort_values(rows) ==
    IF rows = <<>> THEN <<>>
    ELSE InsertRow(sort_values(Front(rows)), Last(rows))

\* df[df["timestamp"] <= end_ts]
UpToEnd(rows) == SelectSeq(rows, LAMBDA r : r.timestamp <= EndTs)

\* the frame fetch_historical_data builds from all_data
Assembled(rows) == UpToEnd(sort_values(drop_duplicates(rows)))

\* df[df["timestamp"] >= start_ts] is not empty
HasStartRow(d) == \E k \in 1..Len(d) : d[k].timestamp >= StartTs

\* df[df["timestamp"] >= start_ts].index[0]
StartIndex(d) ==
    (CHOOSE k \in 1..Len(d) :
        /\ d[k].timestamp >= StartTs
        /\ \A j \in 1..(k - 1) : d[j].timestamp < StartTs) - 1

\* run() calls fetch_historical_data, which sets up its loop
BeginFetch ==
    /\ pc = "init"
    /\ pc' = "fetch"
    /\ all_data' = <<>>
    /\ current_ts' = StartTs - WarmupPeriods
    /\ fetch_error' = FALSE
    /\ UNCHANGED <<variant, initial_balance, mgrVars, dayVars, runVars_but_pc,
                   sell_ret, signalVars, report>>

\* a request answered with retCode 0 and a non-empty list
PageOk ==
    /\ pc = "fetch"
    /\ current_ts < EndTs
    /\ Len(all_data) < MaxRows
    /\ \E page \in Pages(MaxRows - Len(all_data)) :
         /\ all_data' = all_data \o page
         /\ current_ts' = MaxTimestamp(page) + 1
    /\ UNCHANGED <<variant, initial_balance, mgrVars, dayVars, runVars,
                   sell_ret, signalVars, fetch_error, report>>

\* a request answered with retCode 0 and an empty list: break
PageEmpty ==
    /\ pc = "fetch"
    /\ current_ts < EndTs
    /\ pc' = "fetched"
    /\ UNCHANGED <<variant, initial_balance, mgrVars, dayVars, runVars_but_pc,
                   sell_ret, signalVars, fetchVars, report>>

\* a request answered with retCode != 0, or one that raised: the error is
\* printed and the loop left with break
PageFault ==
    /\ pc = "fetch"
    /\ current_ts < EndTs
    /\ fetch_error' = TRUE
    /\ pc' = "fetched"
    /\ UNCHANGED <<variant, initial_balance, mgrVars, dayVars, runVars_but_pc,
                   sell_ret, signalVars, all_data, current_ts, report>>

\* the code after the loop of fetch_historical_data, and run() up to its
\* own loop: None is returned for an empty all_data and run() returns; an
\* empty frame raises IndexError at df['datetime'].iloc[0]; a frame with no
\* row at or after start_ts raises IndexError at .index[0]
Assemble ==
    /\ pc = "fetched" \/ (pc = "fetch" /\ current_ts >= EndTs)
    /\ LET d == Assembled(all_data)
       IN  IF all_data = <<>>
           THEN pc' = "done" /\ UNCHANGED <<df, backtest_start_idx, i>>
           ELSE IF d = <<>>
           THEN pc' = "error" /\ UNCHANGED <<df, backtest_start_idx, i>>
           ELSE IF ~HasStartRow(d)
           THEN pc' = "error" /\ df' = d /\ UNCHANGED <<backtest_start_idx, i>>
           ELSE /\ pc' = "loop"
                /\ df' = d
                /\ backtest_start_idx' = StartIndex(d)
                /\ i' = StartIndex(d)
    /\ UNCHANGED <<variant, initial_balance, mgrVars, dayVars, last_signal,
                   sell_ret, signalVars, fetchVars, report>>

NextFetch == BeginFetch \/ PageOk \/ PageEmpty \/ PageFault \/ Assemble

SpecFetch == Init /\ [][NextFetch]_vars

(***************************************************************************)
(* Statistics specification: print_results called on an object whose       *)
(* ledger holds any alternation of BUY and SELL trades                     *)
(***************************************************************************)
\* profits of the SELL trades tried
StatProfits == {I(-30), I(0), I(30), I(50), I(100)}

\* the ledger entries as far as print_results reads them
StatBuy == [type |-> "BUY"]

StatSell(p) == [type |-> "SELL", profit |-> p]

\* the ledger BUY, SELL(ps[1]), BUY, SELL(ps[2]), ..., with a last BUY still
\* open when open_buy
Ledger(ps, open_buy) ==
    [k \in 1..(2 * Len(ps) + (IF open_buy THEN 1 ELSE 0)) |->
        IF k % 2 = 1 THEN StatBuy ELSE StatSell(ps[k \div 2])]

StatLedgers ==
    {Ledger(ps, b) : ps \in UNION {[1..n -> StatProfits] : n \in 0..MaxSells},
                     b \in BOOLEAN}

InitStats ==
    /\ variant \in {"crossover", "trend"}
    /\ initial_balance = I(10)
    /\ balance = initial_balance
    /\ position = None
    /\ position_size = Zero
    /\ entry_price = Zero
    /\ entry_candle_idx = 0
    /\ daily_trades = 0
    /\ current_day = NoDay
    /\ trades \in StatLedgers
    /\ NotRunning
    /\ NoSignalInput

\* obj.print_results()
PrintResults ==
    /\ report = NothingPrinted
    /\ report' = print_results(variant, trades, balance, initial_balance)
    /\ UNCHANGED <<variant, initial_balance, mgrVars, dayVars, runVars, sell_ret,
                   signalVars, fetchVars>>

NextStats == PrintResults

SpecStats == InitStats /\ [][NextStats]_vars

(***************************************************************************)
(* Live bot specification: TradingBot.run, one action per iteration of its *)
(* polling loop                                                            *)
(***************************************************************************)
\* the bot stops polling once it has placed this many orders
MaxOrders == 3

\* the fields of the TradingBot object and what its latest poll did
Bot == [position |-> position, last_signal |-> last_signal,
        orders |-> orders, order_ret |-> order_ret]

SetBot(b) ==
    /\ position' = b.position
    /\ last_signal' = b.last_signal
    /\ orders' = b.orders
    /\ order_ret' = b.order_ret

\* place_order returned True: the order is with the exchange, and run()
\* records the new position and the signal acted on
Placed(b, side, pos, signal) ==
    [b EXCEPT !.orders = Append(b.orders, side), !.order_ret = "True",
              !.position = pos, !.last_signal = signal]

\* mutant of Refused: the signal is marked as acted on although no order
\* was placed
Refused_MarksSignal(b, signal) ==
    [b EXCEPT !.order_ret = "False", !.last_signal = signal]

\* place_order returned False (retCode != 0, or the request raised): run()
\* assigns nothing
Refused(b, signal) == [b EXCEPT !.order_ret = "False"]

\* the trading part of one iteration of run(): `accepted` is whether the
\* exchange takes the order, should place_order be called
execute_signal(b, signal, accepted) ==
    IF signal # None /\ signal # b.last_signal
    THEN IF signal = "buy" /\ b.position # "long"
         THEN IF accepted THEN Placed(b, "Buy", "long", signal)
              ELSE Refused(b, signal)
         ELSE IF signal = "sell" /\ b.position # "short"
         THEN IF accepted THEN Placed(b, "Sell", "short", signal)
              ELSE Refused(b, signal)
         ELSE [b EXCEPT !.order_ret = None]
    ELSE [b EXCEPT !.order_ret = None]

\* a freshly constructed TradingBot, about to enter the loop of run()
InitBot ==
    /\ variant = "bot"
    /\ initial_balance = Zero
    /\ Constructed
    /\ NotRunning
    /\ NoSignalInput

\* the frame of this poll is kept as the signal inputs
PollFrame(n, prev, cur) ==
    /\ len_df' = n
    /\ previous' = prev
    /\ current' = cur

\* what an iteration of run() never touches
botFrame == <<variant, initial_balance, balance, position_size, entry_price,
              entry_candle_idx, trades, dayVars, df, backtest_start_idx, i,
              sell_ret, bt_signal, valid_entry, fetchVars, report>>

\* the last two rows of a frame of n rows with the given SMA values
LastRow(n, s, l) == SmaRow(n - 1, s, l)

PrevRow(n, s, l) == SmaRow(n - 2, s, l)

\* an iteration in which get_klines returned None: it sleeps and continues
NoData ==
    /\ Len(orders) < MaxOrders
    /\ pc' = "no_data"
    /\ PollFrame(0, None, None)
    /\ bot_signal' = None
    /\ SetBot([Bot EXCEPT !.order_ret = None])
    /\ UNCHANGED botFrame

\* an iteration in which get_current_price returned None: it sleeps and
\* continues
NoPrice ==
    /\ Len(orders) < MaxOrders
    /\ \E n \in 0..(LONG_SMA_PERIOD + 2) :
       \E ps \in SmaValues, pl \in SmaValues, cs \in SmaValues, cl \in SmaValues :
         PollFrame(n, IF n = 0 THEN None ELSE IF n = 1 THEN LastRow(n, cs, cl)
                                         ELSE PrevRow(n, ps, pl),
                   IF n = 0 THEN None ELSE LastRow(n, cs, cl))
    /\ pc' = "no_price"
    /\ bot_signal' = None
    /\ SetBot([Bot EXCEPT !.order_ret = None])
    /\ UNCHANGED botFrame

\* an iteration in which the exchange returned an empty kline list:
\* df.iloc[-1] raises IndexError, which the loop's `except Exception` logs
\* before sleeping
Caught ==
    /\ Len(orders) < MaxOrders
    /\ pc' = "error"
    /\ PollFrame(0, None, None)
    /\ bot_signal' = None
    /\ SetBot([Bot EXCEPT !.order_ret = None])
    /\ UNCHANGED botFrame

\* an iteration with data and price: the signal is computed and acted on
Trade ==
    /\ Len(orders) < MaxOrders
    /\ \E n \in 1..(LONG_SMA_PERIOD + 2), accepted \in BOOLEAN :
       \E ps \in SmaValues, pl \in SmaValues, cs \in SmaValues, cl \in SmaValues :
         LET cur == LastRow(n, cs, cl)
             prev == IF n = 1 THEN cur ELSE PrevRow(n, ps, pl)
             signal == get_signal(n, prev, cur)
         IN  /\ PollFrame(n, prev, cur)
             /\ bot_signal' = signal
             /\ SetBot(execute_signal(Bot, signal, accepted))
    /\ pc' = "polled"
    /\ UNCHANGED botFrame

\* one iteration of `while True` in run()
NextBot == NoData \/ NoPrice \/ Caught \/ Trade

SpecBot == InitBot /\ [][NextBot]_vars

(***************************************************************************)
(* Properties                                                              *)
(***************************************************************************)
\* the run is about to process row i of a trend-reversal series
AtTrendBar == pc = "loop" /\ variant = "trend" /\ i < Len(df)

\* the loop of run() is exhausted and the end-of-data code is next
AtEndOfData == pc = "loop" /\ i = Len(df)

\* the trades a step appended to the ledger
Appended == SubSeq(trades', Len(trades) + 1, Len(trades'))

CountType(t, typ) == Cardinality({k \in 1..Len(t) : t[k].type = typ})

\* the stop-loss and take-profit conditions of row r for the open position
StopHit(r) == RLe(I(r.low), StopLossPrice(entry_price))

TargetHit(r) == RGe(I(r.high), TakeProfitPrice(entry_price))

\* C1: in both backtesters, in every reachable state, entry_price > 0 and
\* position_size > 0 while the position is LONG, and both are 0 while it is
\* FLAT.
C1_PositionInvariant ==
    /\ position = "long" => RGt(entry_price, Zero) /\ RGt(position_size, Zero)
    /\ position = None => entry_price = Zero /\ position_size = Zero

\* C2: trend-reversal exit priority.  A bar processed while LONG on which
\* both the stop-loss and the take-profit condition hold closes the position
\* with reason STOP_LOSS at the stop price; a TAKE_PROFIT exit is recorded
\* only on a bar where the stop-loss condition is false.
C2_StopLossPriority ==
    [][ (AtTrendBar /\ position = "long") =>
          /\ (StopHit(df[i + 1]) /\ TargetHit(df[i + 1])) =>
                /\ Len(Appended) >= 1
                /\ Appended[1].type = "SELL"
                /\ Appended[1].exit_reason = "STOP_LOSS"
                /\ Appended[1].price = StopLossPrice(entry_price)
          /\ \A k \in 1..Len(Appended) :
                (Appended[k].type = "SELL" /\ Appended[k].exit_reason = "TAKE_PROFIT")
                    => ~StopHit(df[i + 1]) ]_vars

\* C3: end-of-data forced close.  A run whose position is still LONG after
\* the last bar appends exactly one SELL at the final bar's close and
\* terminates FLAT with as many BUY as SELL trades in the ledger.  The reason
\* END_OF_TEST is required where the ledger records a reason (the crossover
\* SELL record has no exit_reason field).
C3_ForcedClose ==
    [][ (AtEndOfData /\ position = "long") =>
          /\ Len(Appended) = 1
          /\ Appended[1].type = "SELL"
          /\ Appended[1].price = I(df[Len(df)].close)
          /\ (variant = "trend" => Appended[1].exit_reason = "END_OF_TEST")
          /\ position' = None
          /\ pc' = "done"
          /\ CountType(trades', "BUY") = CountType(trades', "SELL") ]_vars

\* C4: entering while already LONG, a direct simulate_buy call included, is
\* a no-op: balance, position_size, entry_price, the entry bar index and the
\* ledger are unchanged.  Stated for a position of positive size, so that a
\* violation does not rest on the zero-size position of C1.
C4_EnterWhileLongNoOp ==
    [][ (position = "long" /\ position_size # Zero /\ CallBuy)
            => UNCHANGED mgrVars ]_vars

\* C5: exiting while FLAT is a no-op.  A simulate_sell call made while the
\* position is not LONG or position_size is 0 returns False, leaves the
\* manager's state unchanged, and the surrounding run raises no error
\* because of it.
C5_ExitWhileFlatNoError ==
    [][ (sell_ret' # None /\ (position # "long" \/ position_size = Zero)) =>
          /\ sell_ret' = "False"
          /\ UNCHANGED mgrVars
          /\ pc' # "error" ]_vars


\* BUY trades of the ledger executed on bars of calendar day d
BuysOnDay(d) ==
    {k \in 1..Len(trades) : trades[k].type = "BUY" /\ df[trades[k].timestamp + 1].day = d}

\* the step sold the open position before anything else
SoldFirst == Len(Appended) >= 1 /\ Appended[1].type = "SELL"

C6_CapInvariant ==
    variant = "trend" =>
        /\ daily_trades <= MAX_DAILY_TRADES
        /\ \A d \in {0, 1} : Cardinality(BuysOnDay(d)) <= MAX_DAILY_TRADES

C6_ResetStep ==
    /\ (AtTrendBar /\ df[i + 1].day # current_day) =>
        /\ daily_trades' = CountType(Appended, "BUY")
        /\ (is_valid_entry(df[i + 1]) /\ (position = None \/ SoldFirst)) =>
              /\ Last(trades').type = "BUY"
              /\ Last(trades').timestamp = i
              /\ position' = "long"
    /\ (AtTrendBar /\ df[i + 1].day = current_day) =>
        daily_trades' = daily_trades + CountType(Appended, "BUY")

\* C6: daily trade cap (trend-reversal).  daily_trades never exceeds
\* MAX_DAILY_TRADES and no calendar day has more than MAX_DAILY_TRADES BUY
\* trades; on the first processed bar of a new calendar day the counter
\* restarts from 0, so a valid entry on that bar is executed when the
\* position is FLAT, whatever the previous day's count was; on every other
\* bar the counter grows by the BUYs executed.
C6_DailyCap == []C6_CapInvariant /\ [][C6_ResetStep]_vars

\* the cap was reached on day 0 and a BUY was executed on day 1
C6_Witness ==
    /\ variant = "trend"
    /\ Cardinality(BuysOnDay(0)) = MAX_DAILY_TRADES
    /\ Cardinality(BuysOnDay(1)) >= 1

\* C7: exits are never blocked by the daily cap.  On every bar processed
\* while LONG on which check_exit_conditions triggers, the SELL is executed
\* with the price and reason it returned, whatever daily_trades is; the
\* end-of-data close is executed likewise.
C7_ExitsNeverBlocked ==
    [][ /\ (AtTrendBar /\ position = "long"
              /\ check_exit_conditions(Mgr, df[i + 1], i).exit_reason # None) =>
                /\ SoldFirst
                /\ Appended[1].exit_reason = check_exit_conditions(Mgr, df[i + 1], i).exit_reason
                /\ Appended[1].price = check_exit_conditions(Mgr, df[i + 1], i).exit_price
        /\ (AtEndOfData /\ variant = "trend" /\ position = "long") =>
                /\ SoldFirst
                /\ Appended[1].exit_reason = "END_OF_TEST" ]_vars

\* the balance a trade of the ledger found: the previous trade's
\* balance_after, or the initial balance
BalanceBefore(k) == IF k = 1 THEN initial_balance ELSE trades[k - 1].balance_after

C8_LedgerSizing ==
    /\ RGe(balance, Zero)
    /\ \A k \in 1..Len(trades) :
         trades[k].type = "BUY" =>
            LET b == BalanceBefore(k)
                p == trades[k].price
                q == trades[k].quantity
            IN  /\ RGt(p, Zero)
                /\ q = IF RLe(RMul(TRADE_QUANTITY, p), b) THEN TRADE_QUANTITY ELSE RDiv(b, p)
                /\ trades[k].balance_after = RSub(b, RMul(q, p))
                /\ RGe(trades[k].balance_after, Zero)
                /\ RGt(RMul(TRADE_QUANTITY, p), b) => trades[k].balance_after = Zero
    /\ (Len(trades) > 0 /\ Last(trades).type = "BUY") =>
            /\ position = "long"
            /\ position_size = Last(trades).quantity
            /\ entry_price = Last(trades).price
            /\ balance = Last(trades).balance_after

\* the run loop is about to act on an entry: an actionable buy signal
\* (crossover) or a valid entry under the cap (trend-reversal) while FLAT
EntryDue ==
    /\ pc = "loop"
    /\ i < Len(df)
    /\ position = None
    /\ IF variant = "crossover"
       THEN bar_signal(df[IF i = 0 THEN Len(df) ELSE i], df[i + 1]) = "buy"
            /\ last_signal # "buy"
       ELSE is_valid_entry(df[i + 1])
            /\ CapAllows(DayCounter(df[i + 1].day, current_day, daily_trades))

\* C8: entry sizing (both backtesters).  A BUY at price p > 0 with balance b
\* has size TRADE_QUANTITY if TRADE_QUANTITY*p <= b and b/p otherwise and
\* debits exactly size*p: an entry that is due is never rejected for lack of
\* funds, the balance after a partial fill is 0 and the balance is never
\* negative.
C8_EntrySizing ==
    /\ []C8_LedgerSizing
    /\ [][ EntryDue => (Len(Appended) = 1 /\ Appended[1].type = "BUY"
                        /\ Appended[1].price = I(df[i + 1].close)) ]_vars

\* a partial fill: the BUY took less than TRADE_QUANTITY, a positive size,
\* and left the balance at 0
C8_Witness ==
    /\ Len(trades) > 0
    /\ Last(trades).type = "BUY"
    /\ pc = "loop"
    /\ RGt(position_size, Zero)
    /\ RLt(position_size, TRADE_QUANTITY)
    /\ balance = Zero

\* C9: exit execution (both backtesters).  A SELL at price x of a position
\* of size s entered at e credits exactly s*x, records quantity s,
\* profit = s*x - s*e, profit_pct = (x - e)/e*100 and the balance after the
\* credit, and leaves the position FLAT with position_size = 0 and
\* entry_price = 0.
C9_ExitExecution ==
    /\ \A k \in 1..Len(trades) :
         trades[k].type = "SELL" =>
            /\ k > 1
            /\ trades[k - 1].type = "BUY"
            /\ LET s == trades[k - 1].quantity
                   e == trades[k - 1].price
                   x == trades[k].price
               IN  /\ trades[k].quantity = s
                   /\ trades[k].balance_after = RAdd(BalanceBefore(k), RMul(s, x))
                   /\ trades[k].profit = RSub(RMul(s, x), RMul(s, e))
                   /\ trades[k].profit_pct = RMul(RDiv(RSub(x, e), e), Hundred)
    /\ (Len(trades) > 0 /\ Last(trades).type = "SELL") =>
            /\ position = None
            /\ position_size = Zero
            /\ entry_price = Zero
            /\ balance = Last(trades).balance_after

\* a partly filled position was sold at a loss
C9_Witness ==
    /\ Len(trades) > 0
    /\ Last(trades).type = "SELL"
    /\ RLt(Last(trades).profit, Zero)
    /\ RLt(Last(trades).quantity, TRADE_QUANTITY)

\* C10: crossover signal of one pair of rows.  The buy and the sell
\* condition never hold together; when the previous averages are equal the
\* signal is buy if the current short average is above the long one, sell if
\* it is below and none if they are equal; the backtester (both ifs, later
\* assignment wins) and the live bot (first match returns) give the same
\* signal.
C10_OneSignal ==
    bt_signal # "unset" =>
        /\ ~(BuyCond(previous, current) /\ SellCond(previous, current))
        /\ bt_signal = bot_signal
        /\ (~IsNaN(previous.sma_short) /\ previous.sma_short = previous.sma_long) =>
              /\ bt_signal = "buy" <=> RGt(current.sma_short, current.sma_long)
              /\ bt_signal = "sell" <=> RLt(current.sma_short, current.sma_long)
              /\ bt_signal = None <=> current.sma_short = current.sma_long

\* the tie case was evaluated and gave a sell signal
C10_Witness ==
    /\ bt_signal = "sell"
    /\ bot_signal = "sell"
    /\ previous.sma_short = previous.sma_long

\* the ledger t reads BUY, SELL, BUY, ... from its first entry
Alternates(t) ==
    \A k \in 1..Len(t) : t[k].type = (IF k % 2 = 1 THEN "BUY" ELSE "SELL")

\* the signal Backtester.run computes for row i
SignalAt(k) == bar_signal(df[IF k = 0 THEN Len(df) ELSE k], df[k + 1])

\* one step of a run: a BUY is appended only from FLAT and a SELL only from
\* LONG (a trend-reversal bar may append a SELL and then a BUY), and a
\* crossover bar whose signal equals last_signal appends nothing
C11_Step ==
    /\ Len(Appended) <= 2
    /\ Len(Appended) >= 1 =>
          /\ Appended[1].type = "BUY" => position = None
          /\ Appended[1].type = "SELL" => position = "long"
    /\ Len(Appended) = 2 => Appended[1].type = "SELL" /\ Appended[2].type = "BUY"
    /\ (pc = "loop" /\ variant = "crossover" /\ i < Len(df) /\ SignalAt(i) = last_signal)
          => trades' = trades

\* C11: in every run of either backtester the ledger alternates BUY, SELL,
\* BUY, ... starting with a BUY; a BUY is executed only when FLAT and a SELL
\* only when LONG; in the crossover strategy a signal equal to the last
\* actioned signal is never executed.
C11_Alternation == []Alternates(trades) /\ [][C11_Step]_vars

\* a crossover run that has traded, standing at a bar whose signal repeats
\* the last actioned one
C11_Witness ==
    /\ variant = "crossover"
    /\ pc = "loop"
    /\ i < Len(df)
    /\ Len(trades) >= 1
    /\ last_signal # None
    /\ SignalAt(i) = last_signal

\* some SMA of the row a crossover bar reads (the current row, or the row
\* df.iloc[i - 1]) is undefined
SmaUndefined(k) ==
    LET cur == df[k + 1]
        prev == df[IF k = 0 THEN Len(df) ELSE k]
    IN  \/ IsNaN(cur.sma_short) \/ IsNaN(cur.sma_long)
        \/ IsNaN(prev.sma_short) \/ IsNaN(prev.sma_long)

\* the first row index at which sma_rising_count can reach TREND_LOOKBACK
FirstTrendIdx == TREND_SMA_PERIOD - 1 + TREND_LOOKBACK

\* the loop of run() is at row i
AtBar == pc = "loop" /\ i < Len(df)

\* a crossover bar with an undefined SMA, or before index LONG_SMA_PERIOD,
\* trades nothing; a trend-reversal bar before FirstTrendIdx, or with an
\* undefined SMA, appends no BUY
C12_Step ==
    /\ (AtBar /\ variant = "crossover" /\ (SmaUndefined(i) \/ i < LONG_SMA_PERIOD))
          => trades' = trades
    /\ (AtBar /\ variant = "trend" /\ (i < FirstTrendIdx \/ IsNaN(df[i + 1].sma)))
          => \A k \in 1..Len(Appended) : Appended[k].type # "BUY"

\* a run over a series shorter than the longest window never trades and
\* never fails
C12_ShortSeries ==
    (pc # "init" /\ Len(df) < (IF variant = "crossover" THEN LONG_SMA_PERIOD
                                                         ELSE TREND_SMA_PERIOD))
        => trades = <<>> /\ pc # "error"

\* C12: neither backtester executes a BUY or a signal-based SELL computed
\* from undefined indicator values.  Crossover: no signal trade on a bar
\* where the current or the previous short or long SMA is undefined (none at
\* an index below LONG_SMA_PERIOD).  Trend reversal: no BUY at an index below
\* TREND_SMA_PERIOD - 1 + TREND_LOOKBACK.  A series shorter than the longest
\* window produces no signal trades and no error.
C12_NoSignalFromUndefined == []C12_ShortSeries /\ [][C12_Step]_vars

\* a crossover run that passed every bar with an undefined SMA without
\* trading and stands at the first bar that can trade, with a buy signal
C12_Witness ==
    /\ variant = "crossover"
    /\ AtBar
    /\ backtest_start_idx = 0
    /\ i = LONG_SMA_PERIOD
    /\ trades = <<>>
    /\ SignalAt(i) = "buy"

\* C13: ProviderFault.  If any page request returns retCode != 0 or raises,
\* the fetch phase fails terminally and the simulation loop never starts,
\* even when earlier pages were fetched: a run never simulates on a partial
\* series.
C13_NoRunAfterFault == fetch_error => pc # "loop"

\* no fetched row lies in the window [start_ts, end_ts]
NoUsableBar(rows) ==
    \A k \in 1..Len(rows) : rows[k].timestamp < StartTs \/ rows[k].timestamp > EndTs

\* the fetch phase is over
FetchOver == pc \in {"loop", "done", "error"}

\* C14: DataUnavailable.  When the provider yields no usable bar for the
\* window (nothing fetched, or every fetched bar outside [start, end]), run()
\* halts cleanly reporting no data: no bar is simulated, the ledger stays
\* empty, the balance is unchanged and no exception escapes.
C14_DataUnavailable ==
    (FetchOver /\ NoUsableBar(all_data)) =>
        /\ pc = "done"
        /\ trades = <<>>
        /\ balance = initial_balance

\* row r is the first row of its timestamp in fetch order
FirstSeen(r) ==
    \E j \in 1..Len(all_data) :
        /\ all_data[j] = r
        /\ \A h \in 1..(j - 1) : all_data[h].timestamp # r.timestamp

\* C20: the Bar Series handed to the indicator step has strictly increasing
\* timestamps with no duplicates, for any sequence of fetched pages
\* (overlapping, repeated or out-of-order rows), and for each duplicated
\* timestamp the retained bar is the first one seen in fetch order.
C20_SeriesOrdered ==
    /\ \A k \in 1..(Len(df) - 1) : df[k].timestamp < df[k + 1].timestamp
    /\ \A k \in 1..Len(df) : FirstSeen(df[k])

\* a simulation started on a frame of two rows built from pages that held a
\* timestamp twice with different bars, the later timestamp fetched first
C20_Witness ==
    /\ pc = "loop"
    /\ Len(df) = 2
    /\ Len(all_data) = 3
    /\ all_data[1].timestamp > all_data[2].timestamp
    /\ all_data[3].timestamp = all_data[1].timestamp
    /\ all_data[3].close # all_data[1].close

\* the positions of the SELL trades in the ledger, of those with a profit
\* above 0, and of those with a profit of 0 or below
Sells == {k \in 1..Len(trades) : trades[k].type = "SELL"}

Winners == {k \in Sells : RGt(trades[k].profit, Zero)}

Losers == {k \in Sells : RLe(trades[k].profit, Zero)}

RECURSIVE ProfitOf(_)
\* the sum of the profits of the ledger entries at the positions S
ProfitOf(S) ==
    IF S = {} THEN Zero
    ELSE LET k == CHOOSE x \in S : TRUE
         IN  RAdd(trades[k].profit, ProfitOf(S \ {k}))

\* the ledger holds exactly three SELL trades, with profits +100, +50, -30
ExampleLedger ==
    /\ Cardinality(Sells) = 3
    /\ {trades[k].profit : k \in Sells} = {I(100), I(50), I(-30)}

\* C15: statistics partition.  Every SELL trade is in exactly one of winners
\* (profit > 0) or losers (profit <= 0); winners + losers = total trades =
\* number of SELL trades; win rate = winners / total * 100; profit factor =
\* sum(winner profits) / |sum(loser profits)| where the losers' sum is not 0
\* (winners +100, +50 and a loser -30 give 66.7% and 5.00), in both
\* strategies alike.
C15_StatisticsPartition ==
    report.status = "report" =>
        /\ Winners \cap Losers = {}
        /\ Winners \cup Losers = Sells
        /\ report.winning_trades = Cardinality(Winners)
        /\ report.losing_trades = Cardinality(Losers)
        /\ report.total_trades = Cardinality(Sells)
        /\ report.winning_trades + report.losing_trades = report.total_trades
        /\ report.win_rate
             = FormatFixed(R(100 * Cardinality(Winners), Cardinality(Sells)), 10)
        /\ ProfitOf(Losers) # Zero =>
              /\ report.profit_factor.printed
              /\ ~report.profit_factor.inf
              /\ report.profit_factor.value
                   = FormatFixed(RDiv(ProfitOf(Winners), RAbs(ProfitOf(Losers))), 100)
        /\ ExampleLedger =>
              /\ report.win_rate = R(667, 10)
              /\ report.profit_factor = [printed |-> TRUE, inf |-> FALSE, value |-> I(5)]

\* the report of the crossover backtester on the ledger of the example
C15_Witness ==
    /\ variant = "crossover"
    /\ report.status = "report"
    /\ ExampleLedger
    /\ report.win_rate = R(667, 10)
    /\ report.profit_factor.value = I(5)

\* C16: profit factor edge cases.  With at least one winner and no loser the
\* reported profit factor is infinite; the line is omitted only when there
\* are neither losers nor winners; both backtesters report the same outcome
\* for the same SELL profits, also when every loser has a profit of exactly 0.
C16_ProfitFactorEdges ==
    report.status = "report" =>
        /\ (Winners # {} /\ Losers = {}) => report.profit_factor = PrintedInf
        /\ ~report.profit_factor.printed => (Winners = {} /\ Losers = {})
        /\ print_results("crossover", trades, balance, initial_balance).profit_factor
             = print_results("trend", trades, balance, initial_balance).profit_factor

\* C17: the statistics step reports the 'no trades' status if and only if
\* the ledger contains no SELL trade; a ledger with at least one SELL whose
\* profits sum to zero still yields a full report.
C17_NoTradesStatus ==
    report # NothingPrinted =>
        /\ report = NoTradesReport <=> Sells = {}
        /\ Sells # {} =>
              /\ report.status = "report"
              /\ report.total_trades = Cardinality(Sells)
              /\ report.total_profit = ProfitOf(Sells)

\* a full report on a ledger whose SELL profits, not all 0, sum to zero
C17_Witness ==
    /\ report.status = "report"
    /\ Cardinality(Sells) = 2
    /\ ProfitOf(Sells) = Zero
    /\ \E k \in Sells : trades[k].profit # Zero

\* the ledger before a step is a prefix of the ledger after it
LedgerExtended ==
    /\ Len(trades') >= Len(trades)
    /\ SubSeq(trades', 1, Len(trades)) = trades

\* one step of a run keeps every ledger entry and appends at most one trade
\* per manager operation: one for a crossover bar and for the end-of-test
\* close, and for a trend-reversal bar at most a SELL followed by a BUY
C19_Step ==
    /\ LedgerExtended
    /\ Len(Appended) <= (IF AtBar /\ variant = "trend" THEN 2 ELSE 1)
    /\ Len(Appended) = 2 => Appended[1].type = "SELL" /\ Appended[2].type = "BUY"

\* timestamps do not decrease along the ledger
C19_Ordered ==
    \A k \in 1..(Len(trades) - 1) : trades[k].timestamp <= trades[k + 1].timestamp

\* C19: the ledger is append-only and ordered.  Each operation of a run
\* leaves the ledger unchanged or appends exactly one trade at its end, no
\* existing entry is modified or removed, and the trade timestamps are
\* non-decreasing in ledger order, the end-of-test close included.
C19_AppendOnly == []C19_Ordered /\ [][C19_Step]_vars

\* a finished trend-reversal run that sold and bought on one bar and was
\* closed at the end of the data
C19_Witness ==
    /\ pc = "done"
    /\ Len(trades) = 4
    /\ trades[2].timestamp = trades[3].timestamp
    /\ trades[4].exit_reason = "END_OF_TEST"

\* the exit check of row i finds neither the stop nor the target hit and
\* the position has been held for MAX_HOLD_CANDLES bars or more
HoldExpired == i - entry_candle_idx >= MAX_HOLD_CANDLES

\* the step closed the position at the close of row i with reason TIME_EXIT
TimeExited ==
    /\ Len(Appended) >= 1
    /\ Appended[1].type = "SELL"
    /\ Appended[1].exit_reason = "TIME_EXIT"
    /\ Appended[1].price = I(df[i + 1].close)

C21_Step ==
    (AtTrendBar /\ position = "long" /\ ~StopHit(df[i + 1]) /\ ~TargetHit(df[i + 1]))
        => (HoldExpired <=> TimeExited)

\* no position is open once the bar MAX_HOLD_CANDLES after its entry bar has
\* been processed
C21_HoldBound ==
    (variant = "trend" /\ position = "long" /\ pc # "init")
        => /\ pc = "loop"
           /\ i <= entry_candle_idx + MAX_HOLD_CANDLES

\* C21: time exit bounds the holding period (trend reversal).  On a bar i
\* processed while LONG on which neither the stop-loss nor the take-profit
\* triggers, the position is closed at that bar's close with reason
\* TIME_EXIT iff i - entry_candle_idx >= MAX_HOLD_CANDLES; so a position
\* entered at bar e is never still open after bar e + MAX_HOLD_CANDLES has
\* been processed.
C21_TimeExit == []C21_HoldBound /\ [][C21_Step]_vars

\* row i triggers an exit of the open position, is a valid entry, and the
\* daily cap (after the reset check of the bar) is not reached
ExitAndEntryDue ==
    /\ AtTrendBar
    /\ position = "long"
    /\ check_exit_conditions(Mgr, df[i + 1], i).exit_reason # None
    /\ is_valid_entry(df[i + 1])
    /\ CapAllows(DayCounter(df[i + 1].day, current_day, daily_trades))

\* C22: exit before entry on the same bar (trend reversal).  When a bar both
\* triggers an exit of the open position and is a valid entry, with the
\* daily cap not reached, the ledger receives the SELL and then a BUY for
\* that bar, in that order, and the new position's entry price is the bar's
\* close.
C22_ExitBeforeEntry ==
    [][ ExitAndEntryDue =>
          /\ Len(Appended) = 2
          /\ Appended[1].type = "SELL"
          /\ Appended[1].timestamp = i
          /\ Appended[2].type = "BUY"
          /\ Appended[2].timestamp = i
          /\ Appended[2].price = I(df[i + 1].close)
          /\ position' = "long"
          /\ entry_price' = I(df[i + 1].close)
          /\ entry_candle_idx' = i ]_vars

\* at row k (0-based) of the frame the trend SMA and its predecessor's are
\* defined and the SMA is strictly greater
StrictRise(k) ==
    /\ k >= 1
    /\ k < Len(df)
    /\ ~IsNaN(df[k + 1].sma)
    /\ ~IsNaN(df[k].sma)
    /\ RGt(df[k + 1].sma, df[k].sma)

\* the rows k-n+1..k all rise strictly
RiseRun(k, n) == \A j \in (k - n + 1)..k : StrictRise(j)

\* C23: rising-streak count.  For every series, sma_rising_count at bar i is
\* the length of the longest run of consecutive bars ending at i at each of
\* which the trend SMA and its predecessor's are defined and the SMA is
\* strictly greater than the predecessor's; it is 0 at any bar where the SMA
\* did not strictly increase, at bar 0, and at every bar whose SMA or
\* predecessor SMA is undefined.
C23_RisingStreak ==
    variant = "trend" =>
        \A k \in 0..(Len(df) - 1) :
            LET cnt == df[k + 1].sma_rising_count
            IN  /\ cnt \in 0..(k + 1)
                /\ RiseRun(k, cnt)
                /\ ~RiseRun(k, cnt + 1)
                /\ ~StrictRise(k) => cnt = 0
                /\ k = 0 => cnt = 0
                /\ (IsNaN(df[k + 1].sma) \/ (k >= 1 /\ IsNaN(df[k].sma))) => cnt = 0

\* a frame whose last two rows continue a streak of rising bars
C23_Witness ==
    /\ variant = "trend"
    /\ Len(df) = 4
    /\ df[3].sma_rising_count = 1
    /\ df[4].sma_rising_count = 2

\* max(0, (open - close) / open * 100) of the current row
BodyPct ==
    LET pct == R(100 * (current.open - current.close), current.open)
    IN  IF pct[1] < 0 THEN Zero ELSE pct

SellProfits == ProfitOf(Sells)

\* C25: cash conservation (both backtesters).  In every reachable state
\* balance + position_size*entry_price = initial_balance + the sum of the
\* profits of all SELL trades in the ledger; so at the end of a run (FLAT)
\* final balance - initial balance is the sum of the SELL profits, and the
\* total return printed from the trade profits agrees with the percentage
\* computed from the balance.
C25_CashConservation ==
    /\ RAdd(balance, RMul(position_size, entry_price))
         = RAdd(initial_balance, SellProfits)
    /\ pc = "done" =>
          /\ position = None
          /\ RSub(balance, initial_balance) = SellProfits
          /\ report.status = "report" =>
                /\ report.total_profit = RSub(report.final_value, initial_balance)
                /\ report.total_return
                     = RMul(RDiv(report.total_profit, initial_balance), Hundred)

\* a finished run that traded with a partial fill at a loss
C25_Witness ==
    /\ pc = "done"
    /\ report.status = "report"
    /\ RLt(report.total_profit, Zero)
    /\ \E k \in 1..Len(trades) :
          trades[k].type = "BUY" /\ RLt(trades[k].quantity, TRADE_QUANTITY)

\* in the crossover loop last_signal mirrors the position
C26_Mirror ==
    (variant = "crossover" /\ pc = "loop") =>
        /\ last_signal = "buy" <=> position = "long"
        /\ last_signal \in {None, "sell"} <=> position = None

\* the position check of lines 235 / 240 alone would let the signal of row
\* i trade
PositionAllows ==
    \/ SignalAt(i) = "buy" /\ position # "long"
    \/ SignalAt(i) = "sell" /\ position = "long"

C26_Step ==
    (variant = "crossover" /\ AtBar) =>
        /\ last_signal' # last_signal => Len(Appended) = 1
        /\ PositionAllows => SignalAt(i) # last_signal

\* C26: crossover backtester.  At every point of the simulation loop
\* last_signal = "buy" iff the position is LONG and last_signal is None or
\* "sell" iff it is FLAT; last_signal changes only on a bar where a trade is
\* executed, so the check signal != last_signal never blocks a trade that
\* the position check alone would allow.
C26_LastSignal == []C26_Mirror /\ [][C26_Step]_vars

\* the loop after a buy and a sell, flat again with last_signal = "sell"
C26_Witness ==
    /\ variant = "crossover"
    /\ pc = "loop"
    /\ last_signal = "sell"
    /\ position = None
    /\ Len(trades) = 2

\* entry_price * (1 - STOP_LOSS_PCT/100) and entry_price * (1 + TAKE_PROFIT_PCT/100)
StopOf(e) == RDiv(RMul(e, RSub(Hundred, STOP_LOSS_PCT)), Hundred)

TargetOf(e) == RDiv(RMul(e, RAdd(Hundred, TAKE_PROFIT_PCT)), Hundred)

\* C27: trend-reversal exit outcomes.  Every SELL with reason STOP_LOSS has
\* price = entry_price*(1 - STOP_LOSS_PCT/100), hence profit < 0 and
\* profit_pct = -STOP_LOSS_PCT, even when the bar's whole range lies below
\* the stop price; every SELL with reason TAKE_PROFIT has price =
\* entry_price*(1 + TAKE_PROFIT_PCT/100), hence profit > 0; a STOP_LOSS trade
\* is always counted as a loser and a TAKE_PROFIT trade as a winner.
C27_ExitOutcomes ==
    variant = "trend" =>
        \A k \in 1..Len(trades) :
            /\ (trades[k].type = "SELL" /\ trades[k].exit_reason = "STOP_LOSS") =>
                  /\ k > 1
                  /\ trades[k].price = StopOf(trades[k - 1].price)
                  /\ RLt(trades[k].profit, Zero)
                  /\ trades[k].profit_pct = RSub(Zero, STOP_LOSS_PCT)
                  /\ IsLoser(trades[k]) /\ ~IsWinner(trades[k])
            /\ (trades[k].type = "SELL" /\ trades[k].exit_reason = "TAKE_PROFIT") =>
                  /\ k > 1
                  /\ trades[k].price = TargetOf(trades[k - 1].price)
                  /\ RGt(trades[k].profit, Zero)
                  /\ trades[k].profit_pct = TAKE_PROFIT_PCT
                  /\ IsWinner(trades[k]) /\ ~IsLoser(trades[k])

\* a stop-loss SELL on a bar whose whole range lies below the stop price,
\* recorded at the stop price
C27_Witness ==
    /\ variant = "trend"
    /\ Len(trades) >= 2
    /\ Last(trades).type = "SELL"
    /\ Last(trades).exit_reason = "STOP_LOSS"
    /\ RLt(I(df[Last(trades).timestamp + 1].high), Last(trades).price)

\* the bar of the BUY that opened the position SELL k of the ledger closed
EntryBarOf(k) == trades[k - 1].timestamp

\* C28: trend reversal.  The bar on which a position is entered is never
\* checked against that position's exit conditions: every SELL with reason
\* STOP_LOSS, TAKE_PROFIT or TIME_EXIT occurs on a bar with an index strictly
\* greater than the entry bar's, and the only SELL that can share a bar with
\* the BUY that opened its position is the END_OF_TEST close, which then has
\* profit 0.
C28_EntryBarNotChecked ==
    variant = "trend" =>
        \A k \in 1..Len(trades) :
            trades[k].type = "SELL" =>
                /\ k > 1
                /\ trades[k - 1].type = "BUY"
                /\ trades[k].exit_reason \in {"STOP_LOSS", "TAKE_PROFIT", "TIME_EXIT"}
                      => trades[k].timestamp > EntryBarOf(k)
                /\ trades[k].timestamp = EntryBarOf(k) =>
                      /\ trades[k].exit_reason = "END_OF_TEST"
                      /\ trades[k].profit = Zero
                      /\ trades[k].price = trades[k - 1].price

\* a position entered on the last bar and closed on that bar by the
\* end-of-test close
C28_Witness ==
    /\ variant = "trend"
    /\ pc = "done"
    /\ Len(trades) >= 2
    /\ Last(trades).exit_reason = "END_OF_TEST"
    /\ Last(trades).timestamp = EntryBarOf(Len(trades))
    /\ Last(trades).profit = Zero

\* the same signal, arriving again, would make run() call place_order
WouldRetry(signal, pos, last) ==
    /\ signal # None
    /\ signal # last
    /\ signal = "buy" => pos # "long"
    /\ signal = "sell" => pos # "short"

\* position is one of its three values, and the orders placed alternate
C29_State ==
    /\ position \in {None, "long", "short"}
    /\ \A k \in 1..Len(orders) : orders[k] \in {"Buy", "Sell"}
    /\ \A k \in 1..(Len(orders) - 1) : orders[k] # orders[k + 1]

\* position and last_signal move only with an order placed in the same
\* poll; a refused order or missing data or price leaves them as they were
C29_Step ==
    /\ (position' # position \/ last_signal' # last_signal) =>
          /\ order_ret' = "True"
          /\ pc' = "polled"
          /\ Len(orders') = Len(orders) + 1
    /\ (order_ret' = "False" \/ pc' \in {"no_data", "no_price"}) =>
          /\ position' = position
          /\ last_signal' = last_signal
          /\ orders' = orders
    /\ order_ret' = "False" => WouldRetry(bot_signal', position', last_signal')

\* C29: live crossover bot (TradingBot.run).  position and last_signal change
\* only in a poll iteration whose place_order call succeeded; when place_order
\* fails, or market data or the price is unavailable, both are left unchanged,
\* so the same signal is attempted again on a later poll; across any sequence
\* of polls, signals and order outcomes the orders placed strictly alternate
\* between Buy and Sell and position is always None, "long" or "short".
C29_OrdersAlternate == []C29_State /\ [][C29_Step]_vars

\* place_order has just failed, after two orders were placed
C29_Witness ==
    /\ order_ret = "False"
    /\ Len(orders) >= 2

=============================================================================
